---- MODULE Spec2Model ----
(***************************************************************************)
(* Model of scripts/check_stock.py: a script that is started again and     *)
(* again by an external scheduler.  One run fetches the product page,      *)
(* classifies it, loads stock_state.json, sends up to two emails and       *)
(* writes stock_state.json back.                                           *)
(*                                                                         *)
(* Text is a sequence of one-character strings.  Time is a number of       *)
(* seconds (UTC).  The state file is a sequence of JSON tokens.            *)
(***************************************************************************)
EXTENDS Integers, Sequences, FiniteSets, TLC

(***************************************************************************)
(* Bounds of the model.                                                    *)
(***************************************************************************)
MaxRuns == 4

\* Seconds between the starts of two consecutive runs: one minute,
\* 11h59m, exactly 12h.
Deltas == {60, 43140, 43200}

(***************************************************************************)
(* Module-level configuration of the script.                               *)
(***************************************************************************)
PatIkkePaaLager ==
    <<"I", "k", "k", "e", " ", "p", "å", " ", "l", "a", "g", "e", "r">>
PatUdsolgt ==
    <<"U", "d", "s", "o", "l", "g", "t">>
PatPaaLager ==
    <<"P", "å", " ", "l", "a", "g", "e", "r">>
PatLaegIKurv ==
    <<"L", "æ", "g", " ", "i", " ", "k", "u", "r", "v">>
PatTilfoejTilKurv ==
    <<"T", "i", "l", "f", "ø", "j", " ", "t", "i", "l", " ", "k", "u", "r", "v">>

OUT_OF_STOCK_PATTERNS == <<PatIkkePaaLager, PatUdsolgt>>
IN_STOCK_HINTS == <<PatPaaLager, PatLaegIKurv, PatTilfoejTilKurv>>

\* 12 * 3600 in should_send_12h_status
TwelveHours == 12 * 3600

(***************************************************************************)
(* Pages the product URL may answer with.                                  *)
(***************************************************************************)
PageSoldOutWithCart ==
    <<"U", "d", "s", "o", "l", "g", "t", " ", ".", ".", ".", " ",
      "L", "æ", "g", " ", "i", " ", "k", "u", "r", "v">>
PageInStock ==
    <<"P", "å", " ", "l", "a", "g", "e", "r">>
PageNotInStock ==
    <<"I", "k", "k", "e", " ", "p", "å", " ", "l", "a", "g", "e", "r">>
PageSoldOutUpper ==
    <<"U", "D", "S", "O", "L", "G", "T">>
PageCartLower ==
    <<"l", "æ", "g", " ", "i", " ", "k", "u", "r", "v">>
PageNoSignal ==
    <<"K", "o", "m", "m", "e", "r", " ", "s", "n", "a", "r", "t">>
PageEmpty == << >>

Pages ==
    {PageSoldOutWithCart, PageInStock, PageNotInStock, PageSoldOutUpper,
     PageCartLower, PageNoSignal, PageEmpty}

(***************************************************************************)
(* re.search(pat, html, re.IGNORECASE) for the literal patterns above.     *)
(***************************************************************************)
UpperLower ==
    {<<"A", "a">>, <<"B", "b">>, <<"C", "c">>, <<"D", "d">>, <<"E", "e">>,
     <<"F", "f">>, <<"G", "g">>, <<"H", "h">>, <<"I", "i">>, <<"J", "j">>,
     <<"K", "k">>, <<"L", "l">>, <<"M", "m">>, <<"N", "n">>, <<"O", "o">>,
     <<"P", "p">>, <<"Q", "q">>, <<"R", "r">>, <<"S", "s">>, <<"T", "t">>,
     <<"U", "u">>, <<"V", "v">>, <<"W", "w">>, <<"X", "x">>, <<"Y", "y">>,
     <<"Z", "z">>, <<"Æ", "æ">>, <<"Ø", "ø">>, <<"Å", "å">>}

Lower(c) ==
    IF \E p \in UpperLower : p[1] = c
    THEN (CHOOSE p \in UpperLower : p[1] = c)[2]
    ELSE c

\* Does pat match html at offset i (1-based), ignoring case?
MatchAt(pat, html, i) ==
    /\ i + Len(pat) - 1 <= Len(html)
    /\ \A j \in 1..Len(pat) : Lower(html[i + j - 1]) = Lower(pat[j])

re_search(pat, html) ==
    \E i \in 1..Len(html) : MatchAt(pat, html, i)

(***************************************************************************)
(* detect_available: the two for-loops with their early returns.           *)
(***************************************************************************)
RECURSIVE AnyPatternFound(_, _, _)
AnyPatternFound(pats, html, i) ==
    IF i > Len(pats) THEN FALSE
    ELSE IF re_search(pats[i], html) THEN TRUE
    ELSE AnyPatternFound(pats, html, i + 1)

\* Plausible slip: the in-stock hints are looked for first.
detect_available_HintsFirst(html) ==
    IF AnyPatternFound(IN_STOCK_HINTS, html, 1) THEN TRUE
    ELSE FALSE

detect_available(html) ==
    IF AnyPatternFound(OUT_OF_STOCK_PATTERNS, html, 1) THEN FALSE
    ELSE IF AnyPatternFound(IN_STOCK_HINTS, html, 1) THEN TRUE
    ELSE FALSE

(***************************************************************************)
(* Python values held in the state dict.                                   *)
(***************************************************************************)
PyNone == [ty |-> "NoneType"]
PyBool(b) == [ty |-> "bool", b |-> b]
PyStr(s) == [ty |-> "str", s |-> s]

\* bool(v) as used by `if not last_sent_iso`; every str of the model is a
\* non-empty timestamp.
Truthy(v) ==
    CASE v.ty = "NoneType" -> FALSE
      [] v.ty = "bool" -> v.b
      [] v.ty = "str" -> TRUE

(***************************************************************************)
(* datetime.isoformat() and parse_iso for aware UTC datetimes.  A          *)
(* timestamp text is the record of its printed fields.                     *)
(***************************************************************************)
isoformat(t) ==
    [day |-> t \div 86400,
     hour |-> (t % 86400) \div 3600,
     minute |-> (t % 3600) \div 60,
     second |-> t % 60,
     tz |-> "+00:00"]

\* dt.replace("Z", "+00:00"): both spellings mean offset zero.
parse_iso(dt) ==
    LET tz == IF dt.tz = "Z" THEN "+00:00" ELSE dt.tz
    IN  IF tz = "+00:00"
        THEN ((dt.day * 24 + dt.hour) * 60 + dt.minute) * 60 + dt.second
        ELSE -1

\* Plausible slip: strict comparison, the boundary is excluded.
should_send_12h_status_Strict(last_sent_iso, now) ==
    IF ~Truthy(last_sent_iso) THEN TRUE
    ELSE now - parse_iso(last_sent_iso.s) > TwelveHours

should_send_12h_status(last_sent_iso, now) ==
    IF ~Truthy(last_sent_iso) THEN TRUE
    ELSE now - parse_iso(last_sent_iso.s) >= TwelveHours

(***************************************************************************)
(* Python dict with insertion order: a sequence of entries.                *)
(***************************************************************************)
HasKey(d, k) == \E i \in 1..Len(d) : d[i].k = k

dict_get(d, k) ==
    IF HasKey(d, k)
    THEN d[CHOOSE i \in 1..Len(d) : d[i].k = k].v
    ELSE PyNone

dict_set(d, k, v) ==
    IF HasKey(d, k)
    THEN [d EXCEPT ![CHOOSE i \in 1..Len(d) : d[i].k = k].v = v]
    ELSE Append(d, [k |-> k, v |-> v])

DefaultState ==
    <<[k |-> "last_available", v |-> PyNone],
      [k |-> "last_status_email_utc", v |-> PyNone]>>

(***************************************************************************)
(* json.dumps / json.loads over token sequences.                           *)
(***************************************************************************)
LBrace == [tok |-> "{"]
RBrace == [tok |-> "}"]
Colon == [tok |-> ":"]
Comma == [tok |-> ","]
KeyTok(k) == [tok |-> "key", name |-> k]

ValueTok(v) ==
    CASE v.ty = "NoneType" -> [tok |-> "null"]
      [] v.ty = "bool" -> IF v.b THEN [tok |-> "true"] ELSE [tok |-> "false"]
      [] v.ty = "str" -> [tok |-> "string", text |-> v.s]

IsValueTok(t) == t.tok \in {"null", "true", "false", "string"}

TokValue(t) ==
    CASE t.tok = "null" -> PyNone
      [] t.tok = "true" -> PyBool(TRUE)
      [] t.tok = "false" -> PyBool(FALSE)
      [] t.tok = "string" -> PyStr(t.text)

RECURSIVE DumpMembers(_, _)
DumpMembers(d, i) ==
    IF i > Len(d) THEN << >>
    ELSE <<KeyTok(d[i].k), Colon, ValueTok(d[i].v)>>
         \o (IF i < Len(d) THEN <<Comma>> ELSE << >>)
         \o DumpMembers(d, i + 1)

json_dumps(d) == <<LBrace>> \o DumpMembers(d, 1) \o <<RBrace>>

\* Members from token i on; acc is the dict built so far.
RECURSIVE LoadMembers(_, _, _)
LoadMembers(toks, i, acc) ==
    IF /\ i + 3 <= Len(toks)
       /\ toks[i].tok = "key"
       /\ toks[i + 1] = Colon
       /\ IsValueTok(toks[i + 2])
    THEN LET d == dict_set(acc, toks[i].name, TokValue(toks[i + 2]))
         IN  IF toks[i + 3] = RBrace /\ i + 3 = Len(toks)
             THEN [ok |-> TRUE, val |-> d]
             ELSE IF toks[i + 3] = Comma
                  THEN LoadMembers(toks, i + 4, d)
                  ELSE [ok |-> FALSE, val |-> << >>]
    ELSE [ok |-> FALSE, val |-> << >>]

\* ok = FALSE stands for json.JSONDecodeError.
json_loads(toks) ==
    IF Len(toks) = 0 \/ toks[1] # LBrace THEN [ok |-> FALSE, val |-> << >>]
    ELSE IF Len(toks) = 2 /\ toks[2] = RBrace THEN [ok |-> TRUE, val |-> << >>]
    ELSE LoadMembers(toks, 2, << >>)

(***************************************************************************)
(* The state file.                                                         *)
(***************************************************************************)
NoFile == [exists |-> FALSE, text |-> << >>]
FileOf(toks) == [exists |-> TRUE, text |-> toks]

\* A state file cut off after its first key.
TruncatedFile == FileOf(<<LBrace, KeyTok("last_available"), Colon>>)

InitialFiles == {NoFile, TruncatedFile}

(***************************************************************************)
(* Decisions and updates of main().                                        *)
(***************************************************************************)
\* Plausible slip: only a known False counts as "was not available".
RestockDue_OnlyFromFalse(avail, last) ==
    avail /\ last = PyBool(FALSE)

\* `if available and last_available is not True`
RestockDue(avail, last) ==
    avail /\ last # PyBool(TRUE)

\* Plausible slip: the timestamp of the status email is not recorded.
StampStatus_Forgotten(st, t) == st

\* state["last_status_email_utc"] = now.isoformat()
StampStatus(st, t) ==
    dict_set(st, "last_status_email_utc", PyStr(isoformat(t)))

\* Plausible slip: the classification is recorded only when it is True.
RecordAvailable_OnlyTrue(st, avail) ==
    IF avail THEN dict_set(st, "last_available", PyBool(TRUE)) ELSE st

\* state["last_available"] = available
RecordAvailable(st, avail) ==
    dict_set(st, "last_available", PyBool(avail))

(***************************************************************************)
(* State.                                                                  *)
(***************************************************************************)
VARIABLES
    file,            \* stock_state.json
    clock,           \* wall clock, seconds
    runs,            \* runs started so far
    pc,              \* position of the current run in main()
    outcome,         \* how the latest run ended
    html, available, state, last_available, now,   \* locals of main()
    \* what happened in the current (or latest) run
    fileAtStart, fetches, classified, stateRead, loadedState,
    restockTried, restockSent, statusTried, statusSent, saved,
    \* what happened over all runs
    prevOutcome,     \* outcome of the run before the current one
    prevClass,       \* classification of the latest earlier run that classified
    stretchAlerts,   \* restock alerts delivered since the last run that
                     \* classified the product as not available
    statusLog        \* `now` of every run that delivered a status email

locals == <<html, available, state, last_available, now>>
runLog == <<fileAtStart, fetches, classified, stateRead, loadedState,
            restockTried, restockSent, statusTried, statusSent, saved>>
history == <<prevOutcome, prevClass, stretchAlerts, statusLog>>
vars == <<file, clock, runs, pc, outcome, locals, runLog, history>>

Init ==
    /\ file \in InitialFiles
    /\ clock = 0
    /\ runs = 0
    /\ pc = "idle"
    /\ outcome = "none"
    /\ html = << >>
    /\ available = FALSE
    /\ state = << >>
    /\ last_available = PyNone
    /\ now = 0
    /\ fileAtStart = file
    /\ fetches = 0
    /\ classified = FALSE
    /\ stateRead = FALSE
    /\ loadedState = << >>
    /\ restockTried = FALSE
    /\ restockSent = 0
    /\ statusTried = FALSE
    /\ statusSent = 0
    /\ saved = FALSE
    /\ prevOutcome = "none"
    /\ prevClass = PyNone
    /\ stretchAlerts = 0
    /\ statusLog = << >>

(***************************************************************************)
(* The scheduler starts the next run once the previous one has exited.     *)
(***************************************************************************)
StartRun ==
    /\ pc = "idle"
    /\ runs < MaxRuns
    /\ \E d \in Deltas : clock' = clock + d
    /\ runs' = runs + 1
    /\ pc' = "fetch"
    /\ outcome' = "running"
    /\ html' = << >>
    /\ available' = FALSE
    /\ state' = << >>
    /\ last_available' = PyNone
    /\ now' = 0
    /\ fileAtStart' = file
    /\ fetches' = 0
    /\ classified' = FALSE
    /\ stateRead' = FALSE
    /\ loadedState' = << >>
    /\ restockTried' = FALSE
    /\ restockSent' = 0
    /\ statusTried' = FALSE
    /\ statusSent' = 0
    /\ saved' = FALSE
    /\ prevOutcome' = outcome
    /\ prevClass' = IF classified THEN PyBool(available) ELSE prevClass
    /\ UNCHANGED <<file, stretchAlerts, statusLog>>

\* An exception leaves main(): the process exits, nothing else runs.
Abort(error) ==
    /\ pc' = "idle"
    /\ outcome' = error

(***************************************************************************)
(* html = fetch_html(PRODUCT_URL)                                          *)
(***************************************************************************)
FetchOk ==
    /\ pc = "fetch"
    /\ \E page \in Pages : html' = page
    /\ fetches' = fetches + 1
    /\ pc' = "detect"
    /\ UNCHANGED <<file, clock, runs, outcome, available, state,
                   last_available, now, fileAtStart, classified, stateRead,
                   loadedState, restockTried, restockSent, statusTried,
                   statusSent, saved, history>>

\* Plausible slip: a failed fetch is tried once more before giving up.
FetchFail_RetryOnce ==
    /\ pc = "fetch"
    /\ fetches' = fetches + 1
    /\ IF fetches = 0
       THEN UNCHANGED <<pc, outcome>>
       ELSE Abort("NetworkError")
    /\ UNCHANGED <<file, clock, runs, locals, fileAtStart, classified,
                   stateRead, loadedState, restockTried, restockSent,
                   statusTried, statusSent, saved, history>>

\* urlopen raises (URLError, HTTPError, timeout).
FetchFail ==
    /\ pc = "fetch"
    /\ fetches' = fetches + 1
    /\ Abort("NetworkError")
    /\ UNCHANGED <<file, clock, runs, locals, fileAtStart, classified,
                   stateRead, loadedState, restockTried, restockSent,
                   statusTried, statusSent, saved, history>>

(***************************************************************************)
(* available = detect_available(html)                                      *)
(***************************************************************************)
Detect ==
    /\ pc = "detect"
    /\ available' = detect_available(html)
    /\ classified' = TRUE
    /\ stretchAlerts' = IF available' THEN stretchAlerts ELSE 0
    /\ pc' = "load"
    /\ UNCHANGED <<file, clock, runs, outcome, html, state, last_available,
                   now, fileAtStart, fetches, stateRead, loadedState,
                   restockTried, restockSent, statusTried, statusSent, saved,
                   prevOutcome, prevClass, statusLog>>

(***************************************************************************)
(* state = load_state(); last_available = state.get(...); now = ...        *)
(***************************************************************************)
load_state_ok(f) == ~f.exists \/ json_loads(f.text).ok

load_state(f) ==
    IF f.exists THEN json_loads(f.text).val ELSE DefaultState

LoadState ==
    /\ pc = "load"
    /\ load_state_ok(file)
    /\ state' = load_state(file)
    /\ last_available' = dict_get(state', "last_available")
    /\ now' = clock
    /\ stateRead' = TRUE
    /\ loadedState' = state'
    /\ pc' = "restock"
    /\ UNCHANGED <<file, clock, runs, outcome, html, available, fileAtStart,
                   fetches, classified, restockTried, restockSent,
                   statusTried, statusSent, saved, history>>

\* json.loads raises JSONDecodeError; nothing in main() catches it.
LoadStateFail ==
    /\ pc = "load"
    /\ ~load_state_ok(file)
    /\ stateRead' = TRUE
    /\ Abort("JSONDecodeError")
    /\ UNCHANGED <<file, clock, runs, locals, fileAtStart, fetches,
                   classified, loadedState, restockTried, restockSent,
                   statusTried, statusSent, saved, history>>

(***************************************************************************)
(* 1) Restock alert on transition -> available                             *)
(*                                                                         *)
(* send_email either delivers the message and returns, or raises and       *)
(* delivers nothing.                                                       *)
(***************************************************************************)
RestockSkip ==
    /\ pc = "restock"
    /\ ~RestockDue(available, last_available)
    /\ pc' = "status"
    /\ UNCHANGED <<file, clock, runs, outcome, locals, runLog, history>>

RestockSendOk ==
    /\ pc = "restock"
    /\ RestockDue(available, last_available)
    /\ restockTried' = TRUE
    /\ restockSent' = restockSent + 1
    /\ stretchAlerts' = stretchAlerts + 1
    /\ pc' = "status"
    /\ UNCHANGED <<file, clock, runs, outcome, locals, fileAtStart, fetches,
                   classified, stateRead, loadedState, statusTried,
                   statusSent, saved, prevOutcome, prevClass, statusLog>>

\* send_email raises (connect, starttls, login or send_message fails).
RestockSendFail ==
    /\ pc = "restock"
    /\ RestockDue(available, last_available)
    /\ restockTried' = TRUE
    /\ Abort("DeliveryError")
    /\ UNCHANGED <<file, clock, runs, locals, fileAtStart, fetches,
                   classified, stateRead, loadedState, restockSent,
                   statusTried, statusSent, saved, history>>

(***************************************************************************)
(* 2) Status email every 12 hours                                          *)
(***************************************************************************)
StatusDue ==
    should_send_12h_status(dict_get(state, "last_status_email_utc"), now)

StatusSkip ==
    /\ pc = "status"
    /\ ~StatusDue
    /\ pc' = "save"
    /\ UNCHANGED <<file, clock, runs, outcome, locals, runLog, history>>

StatusSendOk ==
    /\ pc = "status"
    /\ StatusDue
    /\ statusTried' = TRUE
    /\ statusSent' = statusSent + 1
    /\ statusLog' = Append(statusLog, now)
    /\ state' = StampStatus(state, now)
    /\ pc' = "save"
    /\ UNCHANGED <<file, clock, runs, outcome, html, available,
                   last_available, now, fileAtStart, fetches, classified,
                   stateRead, loadedState, restockTried, restockSent, saved,
                   prevOutcome, prevClass, stretchAlerts>>

\* Plausible slip: the failure is swallowed and the run goes on to save.
StatusSendFail_Swallowed ==
    /\ pc = "status"
    /\ StatusDue
    /\ statusTried' = TRUE
    /\ state' = RecordAvailable(state, available)
    /\ file' = FileOf(json_dumps(state'))
    /\ saved' = TRUE
    /\ Abort("DeliveryError")
    /\ UNCHANGED <<clock, runs, html, available, last_available, now,
                   fileAtStart, fetches, classified, stateRead, loadedState,
                   restockTried, restockSent, statusSent, history>>

StatusSendFail ==
    /\ pc = "status"
    /\ StatusDue
    /\ statusTried' = TRUE
    /\ Abort("DeliveryError")
    /\ UNCHANGED <<file, clock, runs, locals, fileAtStart, fetches,
                   classified, stateRead, loadedState, restockTried,
                   restockSent, statusSent, saved, history>>

(***************************************************************************)
(* state["last_available"] = available; save_state(state)                  *)
(***************************************************************************)
save_state(st) == FileOf(json_dumps(st))

SaveState ==
    /\ pc = "save"
    /\ state' = RecordAvailable(state, available)
    /\ file' = save_state(state')
    /\ saved' = TRUE
    /\ pc' = "idle"
    /\ outcome' = "ok"
    /\ UNCHANGED <<clock, runs, html, available, last_available, now,
                   fileAtStart, fetches, classified, stateRead, loadedState,
                   restockTried, restockSent, statusTried, statusSent,
                   history>>

Next ==
    \/ StartRun
    \/ FetchOk
    \/ FetchFail
    \/ Detect
    \/ LoadState
    \/ LoadStateFail
    \/ RestockSkip
    \/ RestockSendOk
    \/ RestockSendFail
    \/ StatusSkip
    \/ StatusSendOk
    \/ StatusSendFail
    \/ SaveState

Spec == Init /\ [][Next]_vars

(***************************************************************************)
(* Vocabulary of the properties.                                           *)
(***************************************************************************)
RunCompleted == pc = "idle" /\ outcome = "ok"

\* What the state file holds now, and what the run loaded from it.
Persisted(k) == dict_get(json_loads(file.text).val, k)
Loaded(k) == dict_get(loadedState, k)

\* The run got as far as the restock decision / the status decision.
PastRestockStep ==
    \/ pc \in {"status", "save"}
    \/ RunCompleted
    \/ pc = "idle" /\ outcome = "DeliveryError"
PastStatusStep ==
    \/ pc = "save"
    \/ RunCompleted
    \/ pc = "idle" /\ outcome = "DeliveryError" /\ statusTried

\* Age in seconds of the loaded status timestamp (only when one is set).
StampAge == now - parse_iso(Loaded("last_status_email_utc").s)
GateOpen ==
    \/ Loaded("last_status_email_utc") = PyNone
    \/ StampAge >= TwelveHours

LowerSeq(t) == [i \in 1..Len(t) |-> Lower(t[i])]
Contains(text, pat) ==
    \E i \in 1..(Len(text) - Len(pat) + 1) :
        LowerSeq(SubSeq(text, i, i + Len(pat) - 1)) = LowerSeq(pat)
HasOutOfStockPattern(text) ==
    \E n \in 1..Len(OUT_OF_STOCK_PATTERNS) :
        Contains(text, OUT_OF_STOCK_PATTERNS[n])
HasInStockHint(text) ==
    \E n \in 1..Len(IN_STOCK_HINTS) : Contains(text, IN_STOCK_HINTS[n])

(***************************************************************************)
(* C1: a run calls send_email for the restock alert if and only if its     *)
(* classification is available and the last_available it loaded is not     *)
(* True; a completed run then delivered exactly one alert, otherwise none. *)
(* A completed run with available = True that directly follows a completed *)
(* run with available = True delivers none; the first run ever, with no    *)
(* state file and available = True, delivers one.                          *)
(***************************************************************************)
C1_RestockOnTransition ==
    /\ PastRestockStep =>
          (restockTried <=>
              (available /\ Loaded("last_available") # PyBool(TRUE)))
    /\ RunCompleted =>
          restockSent =
              IF available /\ Loaded("last_available") # PyBool(TRUE)
              THEN 1 ELSE 0
    /\ (RunCompleted /\ prevOutcome = "ok" /\ prevClass = PyBool(TRUE)
          /\ available) => restockSent = 0
    /\ (RunCompleted /\ ~fileAtStart.exists /\ available) => restockSent = 1

\* The second of two completed runs that both saw the product available.
C1_Witness ==
    /\ RunCompleted
    /\ prevOutcome = "ok"
    /\ prevClass = PyBool(TRUE)
    /\ available
    /\ restockSent = 0
    /\ stretchAlerts = 1

(***************************************************************************)
(* C2: load_state never fails the run: with the state file missing or      *)
(* unparseable the run gets the default state (both fields unset) and      *)
(* goes on as a first run would.                                           *)
(***************************************************************************)
C2_LoadNeverFails ==
    (stateRead /\ (~fileAtStart.exists \/ ~json_loads(fileAtStart.text).ok))
        => /\ outcome # "JSONDecodeError"
           /\ loadedState = DefaultState

(***************************************************************************)
(* C3: a run that reaches the status decision calls send_email for the     *)
(* status email if and only if the loaded timestamp is unset or at least   *)
(* 12 hours old (exactly 12h: sent; 11h59m: not sent), whatever the        *)
(* classification and the restock decision were; a completed run leaves    *)
(* `now` in the file when the gate was open and the loaded timestamp when  *)
(* it was closed.                                                          *)
(***************************************************************************)
C3_TwelveHourGate ==
    /\ PastStatusStep => (statusTried <=> GateOpen)
    /\ (PastStatusStep /\ Loaded("last_status_email_utc") # PyNone) =>
          /\ StampAge = TwelveHours => statusTried
          /\ StampAge = TwelveHours - 60 => ~statusTried
    /\ RunCompleted =>
          /\ statusSent = IF GateOpen THEN 1 ELSE 0
          /\ Persisted("last_status_email_utc") =
                IF GateOpen THEN PyStr(isoformat(now))
                ELSE Loaded("last_status_email_utc")

\* A completed run whose loaded timestamp was exactly 12 hours old.
C3_Witness ==
    /\ RunCompleted
    /\ Loaded("last_status_email_utc") # PyNone
    /\ StampAge = TwelveHours
    /\ statusSent = 1
    /\ Persisted("last_status_email_utc") = PyStr(isoformat(now))

(***************************************************************************)
(* C4: no restock alert is delivered twice: between two delivered alerts   *)
(* some run classified the product as not available.                       *)
(***************************************************************************)
C4_NoDoubleRestockAlert == stretchAlerts <= 1

(***************************************************************************)
(* C5: a run ended by a DeliveryError has not saved: the state file is     *)
(* what it was when the run started, no status email was delivered, and    *)
(* when the restock send was the one that failed the status send was       *)
(* never tried.                                                            *)
(***************************************************************************)
C5_DeliveryErrorAborts ==
    (pc = "idle" /\ outcome = "DeliveryError") =>
        /\ file = fileAtStart
        /\ ~saved
        /\ statusSent = 0
        /\ (restockTried /\ restockSent = 0) => ~statusTried

\* The restock alert went out, the status send failed, and the file still
\* says the product was not available.
C5_Witness ==
    /\ pc = "idle"
    /\ outcome = "DeliveryError"
    /\ restockSent = 1
    /\ statusTried
    /\ file.exists
    /\ Persisted("last_available") = PyBool(FALSE)
    /\ available

(***************************************************************************)
(* C6: the last_available a run loads is the classification computed by    *)
(* the run before it (unset when there was none), also after a run that    *)
(* was aborted by a DeliveryError.                                         *)
(***************************************************************************)
C6_LoadedIsPreviousClassification ==
    pc \in {"restock", "status", "save"} => last_available = prevClass

(***************************************************************************)
(* C7: a run ended by a NetworkError fetched once, did not classify, did   *)
(* not read or write the state file and sent no email.                     *)
(***************************************************************************)
C7_NetworkErrorAborts ==
    (pc = "idle" /\ outcome = "NetworkError") =>
        /\ fetches = 1
        /\ ~classified
        /\ ~stateRead
        /\ ~saved
        /\ file = fileAtStart
        /\ ~restockTried /\ ~statusTried
        /\ restockSent = 0 /\ statusSent = 0

\* A failed fetch in a run that had a state file from an earlier run.
C7_Witness ==
    /\ pc = "idle"
    /\ outcome = "NetworkError"
    /\ prevOutcome = "ok"
    /\ file.exists
    /\ fetches = 1

(***************************************************************************)
(* C8: detect_available is true exactly for a text with no out-of-stock    *)
(* pattern and at least one in-stock hint; "Udsolgt ... Læg i kurv" is     *)
(* not available.                                                          *)
(***************************************************************************)
C8_DetectAvailable ==
    classified =>
        /\ available <=> (~HasOutOfStockPattern(html) /\ HasInStockHint(html))
        /\ html = PageSoldOutWithCart => ~available

\* A page with both an out-of-stock pattern and an in-stock hint.
C8_Witness ==
    /\ classified
    /\ HasOutOfStockPattern(html)
    /\ HasInStockHint(html)
    /\ ~available

(***************************************************************************)
(* C9: the `now` of any two runs that delivered a status email are at      *)
(* least 12 hours apart.                                                   *)
(***************************************************************************)
C9_StatusOncePerWindow ==
    \A i, j \in 1..Len(statusLog) :
        i < j => statusLog[j] - statusLog[i] >= TwelveHours

\* Two status emails, with a run aborted after the first one.
C9_Witness ==
    /\ Len(statusLog) = 2
    /\ statusLog[2] - statusLog[1] = TwelveHours
    /\ runs >= 3

(***************************************************************************)
(* C10: after a completed run the file holds this run's classification as  *)
(* last_available (a boolean), and last_status_email_utc differs from the  *)
(* loaded one only if a status email was delivered, in which case it is    *)
(* this run's `now`.                                                       *)
(***************************************************************************)
C10_PersistedAfterCompletedRun ==
    RunCompleted =>
        /\ file.exists
        /\ json_loads(file.text).ok
        /\ Persisted("last_available") = PyBool(available)
        /\ Persisted("last_status_email_utc") # Loaded("last_status_email_utc")
              => /\ statusSent = 1
                 /\ Persisted("last_status_email_utc") = PyStr(isoformat(now))
        /\ statusSent = 0 =>
              Persisted("last_status_email_utc") =
                  Loaded("last_status_email_utc")

\* No email fired, yet last_available was overwritten.
C10_Witness ==
    /\ RunCompleted
    /\ restockSent = 0
    /\ statusSent = 0
    /\ Loaded("last_available") = PyBool(TRUE)
    /\ Persisted("last_available") = PyBool(FALSE)

====
